---- MODULE Spec2Model ----
(***************************************************************************)
(* Model of the Astro-Typst plugins:                                       *)
(*   remark-typst.js  -- remarkTypstMath: finds $...$ / $$...$$ runs in a  *)
(*                       paragraph and splices math segment nodes in;      *)
(*   rehype-typst.js  -- rehypeTypstCustom: dispatches one async compile   *)
(*                       job per matching element and substitutes the      *)
(*                       rendered image (or an error marker) in place.     *)
(* Strings are sequences of one-character strings, so that slicing,        *)
(* trimming, escaping and the regular expressions are computed, not        *)
(* assumed.  Offsets are 0-based as in the JavaScript source.              *)
(***************************************************************************)
EXTENDS Integers, Sequences, FiniteSets, TLC

\* ------------------------------------------------------------------ bounds
\* longest flattened paragraph over the alphabet without braces
MaxLen == 7

\* ------------------------------------------------------------- characters
\* the '\0' placeholder that stands for a non-text child in fullText
Placeholder == "\\0"

\* what /\s/ matches among the characters of the model
IsSpace(c) == c \in {" ", "\n"}

\* the characters a text node of the model can hold
Alphabet == {"$", " ", "x", "{", "}"}

\* the same without the braces, for the longer paragraphs
ScanAlphabet == {"$", " ", "x"}

\* ------------------------------------------------------- string primitives
\* String.prototype.slice(from, to) with 0 <= from, 0-based, end exclusive
Slice(s, from, to) ==
  IF from >= to \/ from >= Len(s) THEN <<>>
  ELSE SubSeq(s, from + 1, IF to > Len(s) THEN Len(s) ELSE to)

Max(a, b) == IF a >= b THEN a ELSE b

Min(a, b) == IF a <= b THEN a ELSE b

\* String.prototype.includes for one character
Includes(s, c) == \E i \in 1..Len(s) : s[i] = c

RECURSIVE TrimStart(_)
TrimStart(s) ==
  IF s # <<>> /\ IsSpace(Head(s)) THEN TrimStart(Tail(s)) ELSE s

RECURSIVE TrimEnd(_)
TrimEnd(s) ==
  IF s # <<>> /\ IsSpace(s[Len(s)]) THEN TrimEnd(SubSeq(s, 1, Len(s) - 1)) ELSE s

\* String.prototype.trim
Trim(s) == TrimEnd(TrimStart(s))

\* .replace(/\{/g, '&#123;').replace(/\}/g, '&#125;')
EscapeChar(c) ==
  IF c = "{" THEN <<"&", "#", "1", "2", "3", ";">>
  ELSE IF c = "}" THEN <<"&", "#", "1", "2", "5", ";">>
  ELSE <<c>>

RECURSIVE EscapeBraces(_)
EscapeBraces(s) ==
  IF s = <<>> THEN <<>> ELSE EscapeChar(Head(s)) \o EscapeBraces(Tail(s))

\* ------------------------------------------------- the delimiter regex
\* /\$\$?([\s\S]+?)\$\$?/g tried at 0-based position i of text with an
\* opener of olen dollars: the lazy content takes the fewest characters
\* (>= 1) that are followed by a dollar; the closer is greedy.
NoMatch == [found |-> FALSE, index |-> 0, olen |-> 0, content |-> <<>>, clen |-> 0]

CloserAt(text, c) ==
  \* 0-based offsets p > c (content = text[c..p-1], non-empty) with text[p] = "$"
  {p \in (c + 1)..(Len(text) - 1) : text[p + 1] = "$"}

MatchWithOpener(text, i, olen) ==
  LET c == i + olen
      ps == CloserAt(text, c)
  IN IF ps = {} THEN NoMatch
     ELSE LET p == CHOOSE q \in ps : \A r \in ps : q <= r
              clen == IF p + 1 < Len(text) /\ text[p + 2] = "$" THEN 2 ELSE 1
          IN [found |-> TRUE, index |-> i, olen |-> olen,
              content |-> Slice(text, c, p), clen |-> clen]

\* the match that starts at position i, if any: the greedy \$\$? first tries
\* two dollars and backtracks to one
MatchAt(text, i) ==
  IF i >= Len(text) \/ text[i + 1] # "$" THEN NoMatch
  ELSE LET two == IF i + 1 < Len(text) /\ text[i + 2] = "$"
                  THEN MatchWithOpener(text, i, 2) ELSE NoMatch
       IN IF two.found THEN two ELSE MatchWithOpener(text, i, 1)

\* regex.exec(text) with regex.lastIndex = from: the leftmost match
RECURSIVE RegexExec(_, _)
RegexExec(text, from) ==
  IF from >= Len(text) THEN NoMatch
  ELSE LET m == MatchAt(text, from)
       IN IF m.found THEN m ELSE RegexExec(text, from + 1)

\* match[0]
FullMatch(text, m) ==
  Slice(text, m.index, m.index + m.olen + Len(m.content) + m.clen)

MatchEnd(m) == m.index + m.olen + Len(m.content) + m.clen

\* ------------------------------------------------------ mode classifier
\* fullMatch.startsWith('$$')
IsDoubleDollar(full) == Len(full) >= 2 /\ full[1] = "$" /\ full[2] = "$"

\* /^\s+[\s\S]*\s+$/.test(content)
HasSpaces(content) ==
  Len(content) >= 2 /\ IsSpace(content[1]) /\ IsSpace(content[Len(content)])

\* a classifier that forgets the double-dollar rule
IsDisplaySpacesOnly(full, content) == HasSpaces(content)

IsDisplay(full, content) == IsDoubleDollar(full) \/ HasSpaces(content)

\* ------------------------------------------------------------ mdast nodes
TextNode(v) == [type |-> "text", value |-> v, className |-> <<>>]

\* a non-text child of a paragraph; the model's one is an image, which has no
\* text of its own (the strong/emphasis visitor of lines 89-100 finds nothing
\* to do in the model's documents)
OtherNode == [type |-> "image", value |-> <<>>, className |-> <<>>]

\* the inlineCode node pushed for a match
MathSegment(full, content) ==
  [type |-> "inlineCode",
   value |-> EscapeBraces(Trim(content)),
   className |-> <<IF IsDisplay(full, content)
                   THEN "typst-math-display" ELSE "typst-math-inline">>]

\* --------------------------------------------- flattened view (lines 106-122)
\* what one child adds to fullText: its value, or the one-character placeholder
Contribution(child) ==
  IF child.type = "text" THEN child.value ELSE <<Placeholder>>

RECURSIVE FullText(_)
FullText(ch) ==
  IF ch = <<>> THEN <<>> ELSE Contribution(Head(ch)) \o FullText(Tail(ch))

\* childMap: for each child its half-open range [start, end) in fullText
RECURSIVE ChildMapFrom(_, _, _)
ChildMapFrom(ch, i, startPos) ==
  IF i > Len(ch) THEN <<>>
  ELSE LET endPos == startPos + Len(Contribution(ch[i]))
       IN <<[start |-> startPos, end |-> endPos, child |-> ch[i], index |-> i - 1]>>
          \o ChildMapFrom(ch, i + 1, endPos)

ChildMap(ch) == ChildMapFrom(ch, 1, 0)

\* ------------------------------------------------ splicer (lines 140-204)
\* the slice of a text child that lies in the gap [lastIndex, matchStart)
GapPortion(item, lastIndex, matchStart) ==
  Slice(item.child.value,
        Max(0, lastIndex - item.start),
        Min(Len(item.child.value), matchStart - item.start))

\* what one childMap item contributes to the gap before a match
GapEmit(fullText, item, lastIndex, matchStart) ==
  IF item.child.type = "text"
  THEN LET portion == GapPortion(item, lastIndex, matchStart)
       IN IF portion # <<>> THEN <<TextNode(portion)>> ELSE <<>>
  ELSE IF fullText[item.start + 1] # Placeholder THEN <<item.child>>
  ELSE IF item.start >= lastIndex /\ item.end <= matchStart THEN <<item.child>>
  ELSE <<>>

\* the for-loop of lines 141-163, from item k on: continue / break / emit
RECURSIVE GapNodes(_, _, _, _, _)
GapNodes(fullText, map, k, lastIndex, matchStart) ==
  IF k > Len(map) THEN <<>>
  ELSE IF map[k].end <= lastIndex
       THEN GapNodes(fullText, map, k + 1, lastIndex, matchStart)
  ELSE IF map[k].start >= matchStart THEN <<>>
  ELSE GapEmit(fullText, map[k], lastIndex, matchStart)
       \o GapNodes(fullText, map, k + 1, lastIndex, matchStart)

\* a tail slice that forgets where the last match ended
TailPortionWhole(item, lastIndex) == item.child.value

\* the slice of a text child that lies after the last match
TailPortion(item, lastIndex) ==
  Slice(item.child.value, Max(0, lastIndex - item.start), Len(item.child.value))

\* the for-loop of lines 191-204, from item k on
RECURSIVE TailNodes(_, _, _)
TailNodes(map, k, lastIndex) ==
  IF k > Len(map) THEN <<>>
  ELSE IF map[k].end <= lastIndex THEN TailNodes(map, k + 1, lastIndex)
  ELSE (IF map[k].child.type = "text"
        THEN (IF TailPortion(map[k], lastIndex) # <<>>
              THEN <<TextNode(TailPortion(map[k], lastIndex))>> ELSE <<>>)
        ELSE IF map[k].start >= lastIndex THEN <<map[k].child>> ELSE <<>>)
       \o TailNodes(map, k + 1, lastIndex)

\* a scan that resumes before the closing delimiter
NextIndexShort(m) == m.index + m.olen + Len(m.content)

\* where the scan resumes after a match (line 187, and the regex's lastIndex)
NextIndex(m) == MatchEnd(m)

\* the while-loop of lines 134-188 followed by the tail loop: the new children
\* and, in order, the raw text match[0] of every match
RECURSIVE SpliceFrom(_, _, _)
SpliceFrom(fullText, map, lastIndex) ==
  LET m == RegexExec(fullText, lastIndex)
  IN IF ~m.found
     THEN [nodes |-> TailNodes(map, 1, lastIndex), raws |-> <<>>]
     ELSE LET rest == SpliceFrom(fullText, map, NextIndex(m))
              full == FullMatch(fullText, m)
          IN [nodes |-> GapNodes(fullText, map, 1, lastIndex, m.index)
                        \o <<MathSegment(full, m.content)>> \o rest.nodes,
              raws |-> <<[full |-> full, content |-> m.content, olen |-> m.olen,
                          clen |-> m.clen]>> \o rest.raws]

\* the paragraph visitor (lines 103-210) on one paragraph's children
ParagraphPass(ch) ==
  LET fullText == FullText(ch)
  IN IF ~Includes(fullText, "$") THEN [nodes |-> ch, raws |-> <<>>]
     ELSE LET r == SpliceFrom(fullText, ChildMap(ch), 0)
          IN IF Len(r.nodes) > 0 THEN r ELSE [nodes |-> ch, raws |-> r.raws]

\* ============================ rehype-typst.js =============================
\* ------------------------------------------------------------ hast elements
\* an element's child list, as far as the plugin reads or writes it:
\*   "text"     one text child with the given value
\*   "elements" element children (they are entries of their own)
\*   "none"     no children
\*   "svg"      the parsed <svg> root, with the style the plugin gave it
\*   "error"    one text child holding the error marker
Kids(kind, value) == [kind |-> kind, value |-> value, style |-> ""]

Element(tagName, className, parent, kids) ==
  [tagName |-> tagName, className |-> className, style |-> "",
   parent |-> parent, kids |-> kids]

\* classes.includes(name)
ClassIncludes(className, name) == \E i \in 1..Len(className) : className[i] = name

\* node.properties?.className tests of lines 49-53
IsMathInline(node) == ClassIncludes(node.className, "math-inline")

IsMathDisplay(node) == ClassIncludes(node.className, "math-display")

IsTypstBlock(node) ==
  node.tagName = "code" /\ ClassIncludes(node.className, "language-typst")

\* line 55: the elements a job is dispatched for
Matches(node) == IsMathInline(node) \/ IsMathDisplay(node) \/ IsTypstBlock(node)

\* line 57: node.children[0]?.value || ''
CodeOf(node) == IF node.kids.kind = "text" THEN node.kids.value ELSE <<>>

\* line 60: /^\s+.*\s+$/.test(code); "." does not match a line break
HasTypstDisplaySpaces(code) ==
  \E i \in 1..Len(code) : \E j \in (i + 1)..Len(code) :
    /\ \A k \in 1..i : IsSpace(code[k])
    /\ \A k \in j..Len(code) : IsSpace(code[k])
    /\ \A k \in (i + 1)..(j - 1) : code[k] # "\n"

\* parent?.tagName === 'pre'; parent 0 is the root, which has no tagName
ParentIsPre(tree, node) ==
  node.parent # 0 /\ tree[node.parent].tagName = "pre"

\* line 61
IsDisplayMode(tree, node) ==
  IsMathDisplay(node) \/ ParentIsPre(tree, node) \/ HasTypstDisplaySpaces(CodeOf(node))

\* ------------------------------------------------ renderTypstToSVG (7-39)
PageDirective == "#set page(height: auto, width: auto, margin: 0pt)\n"

BoxDirective == "#show math.equation: it => { box(it, inset: (top: 0.5em, bottom: 0.5em)) }\n"

\* line 12: trimmedCode.startsWith('$') && trimmedCode.endsWith('$')
HasTypstDelimiters(trimmedCode) ==
  Len(trimmedCode) >= 1 /\ trimmedCode[1] = "$" /\ trimmedCode[Len(trimmedCode)] = "$"

\* the two branches of the ternary exchanged
WrapTemplateSwapped(trimmedCode, displayMode) ==
  IF displayMode
  THEN <<PageDirective, BoxDirective, "$", " ">> \o trimmedCode \o <<" ", "$">>
  ELSE <<PageDirective, "$", " ">> \o trimmedCode \o <<" ", "$">>

\* lines 23-25: content without delimiters of its own is wrapped in "$ ... $"
WrapTemplate(trimmedCode, displayMode) ==
  IF displayMode
  THEN <<PageDirective, "$", " ">> \o trimmedCode \o <<" ", "$">>
  ELSE <<PageDirective, BoxDirective, "$", " ">> \o trimmedCode \o <<" ", "$">>

\* lines 11-26: the source document handed to compiler.compile
Template(code, displayMode) ==
  LET trimmedCode == Trim(code)
  IN IF HasTypstDelimiters(trimmedCode)
     THEN <<PageDirective>> \o trimmedCode
     ELSE WrapTemplate(trimmedCode, displayMode)

\* line 32: the message of the Error thrown when compile gives no result
FailureMessage == <<"Typst compilation failed: ", "[diagnostics]">>

\* line 102: `[Typst Error: ${error.message}]`
ErrorMarker(message) == <<"[Typst Error: ">> \o message \o <<"]">>

\* line 36: compiler.evictCache(10)
EvictAge == 10

\* the engine's cache as the ages of its entries: an eviction ages every
\* entry by one and drops those that reached the given age
EvictCache(cache, maxAge) ==
  LET aged == [i \in 1..Len(cache) |-> cache[i] + 1]
  IN SelectSeq(aged, LAMBDA a : a < maxAge)

\* ---------------------------------------------- substitution (lines 65-104)
\* lines 68-96: the tree after a successful render of node n
Substituted(tree, n, isDisplayMode) ==
  LET svgNode == [kind |-> "svg", value |-> <<"<svg>">>,
                  style |-> IF isDisplayMode
                            THEN "display: block; margin: 1em auto;"
                            ELSE "display: inline-block; vertical-align: middle;"]
  IN IF isDisplayMode
     THEN IF ParentIsPre(tree, tree[n])
          THEN [tree EXCEPT ![tree[n].parent] =
                  [@ EXCEPT !.tagName = "div", !.className = <<"typst-display">>,
                            !.style = "", !.kids = svgNode]]
          ELSE [tree EXCEPT ![n] =
                  [@ EXCEPT !.tagName = "div", !.className = <<"typst-display">>,
                            !.style = "", !.kids = svgNode]]
     ELSE [tree EXCEPT ![n] =
             [@ EXCEPT !.tagName = "span", !.className = <<"typst-inline">>,
                       !.style = "display: inline-block;", !.kids = svgNode]]

\* a catch block that drops the failure's message
CaughtNoMessage(tree, n, message) ==
  [tree EXCEPT ![n].kids = Kids("error", <<"[Typst Error: ", "]">>)]

\* lines 98-104: the catch block writes the error marker into node n
Caught(tree, n, message) ==
  [tree EXCEPT ![n].kids = Kids("error", ErrorMarker(message))]

\* ------------------------------------------------------- jobs and promises
NoJob == [pc |-> "none", code |-> <<>>, display |-> FALSE, template |-> <<>>,
          outcome |-> "none", message |-> <<>>]

Microtask(kind, job) == [kind |-> kind, job |-> job]

\* a compile call that is awaited: the thread is released while the job is
\* still inside the engine
CompileAwaited(j) == 0

\* a transformer that does not await Promise.all
StageNoAwait == "done"

\* line 28: compile is a plain synchronous call, so the thread stays with
\* the job that made it
CompileReturnsTo(j) == j

\* line 111: the transformer suspends on Promise.all(promises)
StageAfterWalk == "awaitAll"

\* ------------------------------------------------ fenced code blocks
\* an mdast code node; lang "" stands for a document without one
Block(lang, meta, value) ==
  [lang |-> lang, meta |-> meta, value |-> value, className |-> <<>>]

NoBlock == Block("", "", <<>>)

\* lines 76-84: the code visitor marks a typst block; eval=false in the meta
\* string adds the typst-no-eval class
CodePass(b) ==
  IF b.lang = "typst"
  THEN [b EXCEPT !.className = IF b.meta = "eval=false"
                               THEN <<"language-typst", "typst-no-eval">>
                               ELSE <<"language-typst">>]
  ELSE b

\* ------------------------------------------- mdast to hast (remark-rehype)
\* data.hProperties.className becomes the element's className; an inlineCode
\* node becomes <code> with one text child, a fenced block <pre><code>
ChildElement(child) ==
  IF child.type = "inlineCode"
  THEN <<Element("code", child.className, 1, Kids("text", child.value))>>
  ELSE IF child.type = "text" THEN <<>>
  ELSE <<Element("img", <<>>, 1, Kids("none", <<>>))>>

RECURSIVE ChildElements(_)
ChildElements(ch) ==
  IF ch = <<>> THEN <<>> ELSE ChildElement(Head(ch)) \o ChildElements(Tail(ch))

BlockElements(b, at) ==
  IF b.lang = "" THEN <<>>
  ELSE <<Element("pre", <<>>, 0, Kids("elements", <<>>)),
         Element("code",
                 IF b.className # <<>> THEN b.className ELSE <<"language-js">>,
                 at,
                 Kids("text", IF b.value = <<>> THEN <<>> ELSE b.value \o <<"\n">>))>>

ToHastTree(ch, b) ==
  LET para == <<Element("p", <<>>, 0, Kids("elements", <<>>))>> \o ChildElements(ch)
  IN para \o BlockElements(b, Len(para) + 1)

\* ------------------------------------------------------------------ state
VARIABLES
  phase,      \* "source" | "spliced" | "respliced" | "hast"
  source,     \* the paragraph's children as the parser delivered them
  children,   \* the paragraph's children now (node.children)
  raws,       \* the matches of the latest pass, in order (match[0], match[1])
  block,      \* the document's fenced code block, if any
  hast,       \* the elements of the hast tree, in the order visit meets them
  given,      \* the tree as the transformer received it
  tpc,        \* the transformer: "idle" | "visit" | "awaitAll" | "done"
  walk,       \* the element visit looks at next
  jobs,       \* per element, the processNode call made for it
  cur,        \* the job running inside renderTypstToSVG (0: none)
  microtasks, \* the microtask queue, first in first out
  remaining,  \* Promise.all: promises not yet fulfilled
  compiler    \* compilerInstance: created?, jobs inside it, cache, calls

exVars == <<phase, source, children, raws, block>>

rVars == <<hast, given, tpc, walk, jobs, cur, microtasks, remaining, compiler>>

vars == <<phase, source, children, raws, block,
          hast, given, tpc, walk, jobs, cur, microtasks, remaining, compiler>>

\* ------------------------------------------------------------------ bounds
\* longest flattened paragraph over the whole alphabet
MaxText == 5

\* most top-level items of a tree handed to the render stage directly
MaxItems == 3

\* --------------------------------------------------- paragraphs of the model
\* a parsed paragraph seen through its flattened view: every maximal run of
\* ordinary characters is one text child, every placeholder one childless
\* non-text child
RECURSIVE ToChildren(_)
ToChildren(s) ==
  IF s = <<>> THEN <<>>
  ELSE IF Head(s) = Placeholder THEN <<OtherNode>> \o ToChildren(Tail(s))
  ELSE LET rest == ToChildren(Tail(s))
       IN IF rest # <<>> /\ rest[1].type = "text"
          THEN <<TextNode(<<Head(s)>> \o rest[1].value)>> \o Tail(rest)
          ELSE <<TextNode(<<Head(s)>>)>> \o rest

Flattened(n, chars) == UNION {[1..k -> chars \cup {Placeholder}] : k \in 1..n}

Blocks == {NoBlock, Block("typst", "", <<"x">>), Block("typst", "eval=false", <<"x">>),
           Block("js", "", <<"x">>)}

\* ----------------------------------------------------- trees of the model
\* top-level items of a tree that reaches the render stage from upstream:
\* tagged math (remark-math), typst blocks, and remark-typst's own segments
Items ==
  { <<Element("code", <<"language-math", "math-inline">>, 0, Kids("text", <<"x">>))>>,
    <<Element("code", <<"language-math", "math-inline">>, 0, Kids("text", <<" ", "x", " ">>))>>,
    <<Element("code", <<"language-math", "math-inline">>, 0, Kids("text", <<"$", "x", "$">>))>>,
    <<Element("span", <<"math", "math-inline">>, 0, Kids("none", <<>>))>>,
    <<Element("div", <<"math", "math-display">>, 0, Kids("text", <<"x">>))>>,
    <<Element("pre", <<>>, 0, Kids("elements", <<>>)),
      Element("code", <<"language-math", "math-display">>, 1, Kids("text", <<"x">>))>>,
    <<Element("pre", <<>>, 0, Kids("elements", <<>>)),
      Element("code", <<"language-typst">>, 1, Kids("text", <<"x", "\n">>))>>,
    <<Element("code", <<"typst-math-inline">>, 0, Kids("text", <<"x">>))>> }

\* an item appended to a tree: its parent indices move with it
Shifted(item, by) ==
  [k \in 1..Len(item) |->
     [item[k] EXCEPT !.parent = IF @ = 0 THEN 0 ELSE @ + by]]

RECURSIVE Trees(_)
Trees(n) ==
  IF n = 0 THEN {<<>>}
  ELSE LET smaller == Trees(n - 1)
       IN smaller \cup {t \o Shifted(item, Len(t)) : t \in smaller, item \in Items}

NoCompiler == [created |-> FALSE, inside |-> {}, cache |-> <<>>, calls |-> <<>>]

IdleRender ==
  /\ hast = <<>> /\ given = <<>> /\ tpc = "idle" /\ walk = 1 /\ jobs = <<>>
  /\ cur = 0 /\ microtasks = <<>> /\ remaining = 0 /\ compiler = NoCompiler

\* ------------------------------------------------------------ remark-typst
InitExtract ==
  /\ phase = "source"
  /\ \E s \in Flattened(MaxLen, ScanAlphabet) \cup Flattened(MaxText, Alphabet) :
       source = ToChildren(s)
  /\ children = source
  /\ raws = <<>>
  /\ block = NoBlock
  /\ IdleRender

\* remarkTypstMath's paragraph visitor on the paragraph; a second run models
\* the plugin being applied to its own output
RemarkPass ==
  /\ phase \in {"source", "spliced"}
  /\ LET r == ParagraphPass(children)
     IN /\ children' = r.nodes
        /\ raws' = r.raws
  /\ phase' = IF phase = "source" THEN "spliced" ELSE "respliced"
  /\ UNCHANGED <<source, block>>
  /\ UNCHANGED rVars

NextExtract == RemarkPass

SpecExtract == InitExtract /\ [][NextExtract]_vars

\* ------------------------------------------------------------ rehype-typst
\* the transformer is called on tree t: promises = [], visit starts
Entered(t) ==
  /\ hast = t /\ given = t /\ tpc = "visit" /\ walk = 1
  /\ jobs = [n \in 1..Len(t) |-> NoJob]
  /\ cur = 0 /\ microtasks = <<>> /\ remaining = 0 /\ compiler = NoCompiler

InitRender ==
  /\ phase = "hast"
  /\ source = <<>> /\ children = <<>> /\ raws = <<>> /\ block = NoBlock
  /\ \E t \in Trees(MaxItems) : Entered(t)

\* the jobs whose promises were pushed (line 107)
Dispatched == {n \in 1..Len(jobs) : jobs[n].pc # "none"}

\* lines 45-55: visit meets an element that is not math
VisitSkip ==
  /\ tpc = "visit" /\ cur = 0 /\ walk <= Len(hast)
  /\ ~Matches(hast[walk])
  /\ walk' = walk + 1
  /\ UNCHANGED <<hast, given, tpc, jobs, cur, microtasks, remaining, compiler>>
  /\ UNCHANGED exVars

\* lines 55-64 and 7-26: visit meets a math element; processNode() runs up to
\* the compile call: the code is read, the mode decided, the shared compiler
\* created on first use, the template built
Dispatch ==
  /\ tpc = "visit" /\ cur = 0 /\ walk <= Len(hast)
  /\ Matches(hast[walk])
  /\ LET code == CodeOf(hast[walk])
         isDisplayMode == IsDisplayMode(hast, hast[walk])
     IN jobs' = [jobs EXCEPT ![walk] =
                   [pc |-> "compile", code |-> code, display |-> isDisplayMode,
                    template |-> Template(Trim(code), isDisplayMode),
                    outcome |-> "none", message |-> <<>>]]
  /\ compiler' = [compiler EXCEPT !.created = TRUE]
  /\ cur' = walk
  /\ UNCHANGED <<hast, given, tpc, walk, microtasks, remaining>>
  /\ UNCHANGED exVars

\* lines 28-33, compile gives a result: the job is now inside the engine
CompileOk ==
  /\ cur # 0 /\ jobs[cur].pc = "compile"
  /\ jobs' = [jobs EXCEPT ![cur].pc = "svg"]
  /\ compiler' = [compiler EXCEPT !.inside = @ \cup {cur},
                                  !.cache = Append(@, 0),
                                  !.calls = Append(@, cur)]
  /\ cur' = CompileReturnsTo(cur)
  /\ UNCHANGED <<hast, given, tpc, walk, microtasks, remaining>>
  /\ UNCHANGED exVars

\* lines 28-33, compile gives no result: renderTypstToSVG throws, its promise
\* is rejected, processNode suspends at the await and visit goes on
CompileFail ==
  /\ cur # 0 /\ jobs[cur].pc = "compile"
  /\ jobs' = [jobs EXCEPT ![cur].pc = "awaiting", ![cur].outcome = "error",
                          ![cur].message = FailureMessage]
  /\ compiler' = [compiler EXCEPT !.calls = Append(@, cur)]
  /\ microtasks' = Append(microtasks, Microtask("resume", cur))
  /\ cur' = 0
  /\ walk' = walk + 1
  /\ UNCHANGED <<hast, given, tpc, remaining>>
  /\ UNCHANGED exVars

\* line 35: compiler.svg(docRes.result)
Svg ==
  /\ cur # 0 /\ jobs[cur].pc = "svg"
  /\ jobs' = [jobs EXCEPT ![cur].pc = "evict", ![cur].outcome = "svg"]
  /\ UNCHANGED <<hast, given, tpc, walk, cur, microtasks, remaining, compiler>>
  /\ UNCHANGED exVars

\* lines 36-38 and 64: the cache is evicted, renderTypstToSVG returns, and
\* processNode suspends at the await; visit goes on with the next element
Evict ==
  /\ cur # 0 /\ jobs[cur].pc = "evict"
  /\ compiler' = [compiler EXCEPT !.inside = @ \ {cur},
                                  !.cache = EvictCache(@, EvictAge)]
  /\ jobs' = [jobs EXCEPT ![cur].pc = "awaiting"]
  /\ microtasks' = Append(microtasks, Microtask("resume", cur))
  /\ cur' = 0
  /\ walk' = walk + 1
  /\ UNCHANGED <<hast, given, tpc, remaining>>
  /\ UNCHANGED exVars

\* line 111: the walk is over; Promise.all subscribes to every pushed promise
\* (all still pending) and the transformer suspends.  Promise.all([]) is
\* already fulfilled, so the transformer's continuation is queued at once.
AwaitAll ==
  /\ tpc = "visit" /\ cur = 0 /\ walk > Len(hast)
  /\ remaining' = Cardinality(Dispatched)
  /\ microtasks' = IF Dispatched = {}
                   THEN Append(microtasks, Microtask("resumeStage", 0))
                   ELSE microtasks
  /\ tpc' = StageAfterWalk
  /\ UNCHANGED <<hast, given, walk, jobs, cur, compiler>>
  /\ UNCHANGED exVars

\* the microtask at the head of the queue may run: no synchronous code is
\* on the stack
HeadIs(kind) ==
  /\ tpc \in {"awaitAll", "done"} /\ cur = 0
  /\ microtasks # <<>> /\ Head(microtasks).kind = kind

\* lines 65-97: processNode resumes with the svg and writes it into the
\* tree; its promise is fulfilled, which queues Promise.all's reaction
Substitute ==
  /\ HeadIs("resume")
  /\ LET j == Head(microtasks).job
     IN /\ jobs[j].outcome = "svg"
        /\ hast' = Substituted(hast, j, jobs[j].display)
        /\ jobs' = [jobs EXCEPT ![j].pc = "settled"]
        /\ microtasks' = Append(Tail(microtasks), Microtask("resolveElement", j))
  /\ UNCHANGED <<given, tpc, walk, cur, remaining, compiler>>
  /\ UNCHANGED exVars

\* lines 98-104: processNode resumes with the rejection, the catch block
\* writes the error marker; its promise is fulfilled all the same
CatchError ==
  /\ HeadIs("resume")
  /\ LET j == Head(microtasks).job
     IN /\ jobs[j].outcome = "error"
        /\ hast' = Caught(hast, j, jobs[j].message)
        /\ jobs' = [jobs EXCEPT ![j].pc = "settled"]
        /\ microtasks' = Append(Tail(microtasks), Microtask("resolveElement", j))
  /\ UNCHANGED <<given, tpc, walk, cur, remaining, compiler>>
  /\ UNCHANGED exVars

\* Promise.all's reaction to one fulfilled promise; the last one fulfils the
\* combined promise, which queues the transformer's continuation
ResolveElement ==
  /\ HeadIs("resolveElement")
  /\ remaining' = remaining - 1
  /\ microtasks' = IF remaining = 1
                   THEN Append(Tail(microtasks), Microtask("resumeStage", 0))
                   ELSE Tail(microtasks)
  /\ UNCHANGED <<hast, given, tpc, walk, jobs, cur, compiler>>
  /\ UNCHANGED exVars

\* lines 111-112: the transformer resumes after the await and returns
Complete ==
  /\ HeadIs("resumeStage")
  /\ tpc' = "done"
  /\ microtasks' = Tail(microtasks)
  /\ UNCHANGED <<hast, given, walk, jobs, cur, remaining, compiler>>
  /\ UNCHANGED exVars

NextRender ==
  \/ VisitSkip \/ Dispatch \/ CompileOk \/ CompileFail \/ Svg \/ Evict
  \/ AwaitAll \/ Substitute \/ CatchError \/ ResolveElement \/ Complete

SpecRender == InitRender /\ [][NextRender]_vars

\* ------------------------------------------------- both plugins in a row
Init ==
  /\ phase = "source"
  /\ \E s \in Flattened(MaxText, Alphabet) : source = ToChildren(s)
  /\ children = source
  /\ raws = <<>>
  /\ block \in Blocks
  /\ IdleRender

\* remarkTypstMath's transformer on the document: the code visitor, then the
\* paragraph visitor
Remark ==
  /\ phase = "source"
  /\ block' = CodePass(block)
  /\ LET r == ParagraphPass(children)
     IN /\ children' = r.nodes
        /\ raws' = r.raws
  /\ phase' = "spliced"
  /\ UNCHANGED source
  /\ UNCHANGED rVars

\* remark-rehype turns the document into hast and rehypeTypstCustom's
\* transformer is called on it
ToHast ==
  /\ phase = "spliced" /\ tpc = "idle"
  /\ phase' = "hast"
  /\ hast' = ToHastTree(children, block)
  /\ given' = hast'
  /\ tpc' = "visit"
  /\ jobs' = [n \in 1..Len(hast') |-> NoJob]
  /\ UNCHANGED <<walk, cur, microtasks, remaining, compiler>>
  /\ UNCHANGED <<source, children, raws, block>>

Next ==
  \/ Remark \/ ToHast
  \/ VisitSkip \/ Dispatch \/ CompileOk \/ CompileFail \/ Svg \/ Evict
  \/ AwaitAll \/ Substitute \/ CatchError \/ ResolveElement \/ Complete

Spec == Init /\ [][Next]_vars

\* ---------------------------------------------- properties of the extraction
\* the math segment nodes among a paragraph's children, in order
RECURSIVE Segments(_)
Segments(ch) ==
  IF ch = <<>> THEN <<>>
  ELSE (IF Head(ch).type = "inlineCode" THEN <<Head(ch)>> ELSE <<>>)
       \o Segments(Tail(ch))

SegmentIsDisplay(seg) == seg.className = <<"typst-math-display">>

SegmentIsInline(seg) == seg.className = <<"typst-math-inline">>

\* the first pass has run on a parsed paragraph: segment i came from raws[i]
Spliced == phase = "spliced" /\ Len(Segments(children)) = Len(raws)

StartsWithTwoDollars(raw) == SubSeq(raw.full, 1, 2) = <<"$", "$">>

\* whitespace+, anything, whitespace+: two distinct whitespace characters
SpacesBothSides(raw) ==
  /\ Len(raw.content) >= 2
  /\ raw.content[1] \in {" ", "\n"}
  /\ raw.content[Len(raw.content)] \in {" ", "\n"}

\* the inner content without leading and trailing whitespace
RECURSIVE Trimmed(_)
Trimmed(c) ==
  IF c = <<>> THEN c
  ELSE IF c[1] \in {" ", "\n"} THEN Trimmed(Tail(c))
  ELSE IF c[Len(c)] \in {" ", "\n"} THEN Trimmed(SubSeq(c, 1, Len(c) - 1))
  ELSE c

\* a string with every entity escape of a brace turned back into the brace
RECURSIVE Unescaped(_)
Unescaped(v) ==
  IF Len(v) >= 6 /\ SubSeq(v, 1, 6) = <<"&", "#", "1", "2", "3", ";">>
  THEN <<"{">> \o Unescaped(SubSeq(v, 7, Len(v)))
  ELSE IF Len(v) >= 6 /\ SubSeq(v, 1, 6) = <<"&", "#", "1", "2", "5", ";">>
  THEN <<"}">> \o Unescaped(SubSeq(v, 7, Len(v)))
  ELSE IF v = <<>> THEN <<>>
  ELSE <<Head(v)>> \o Unescaped(Tail(v))

\* C5 (as stated): a segment is display exactly when its run is delimited by
\* $$...$$, or by single dollars with whitespace on both sides of the inner
\* content; its stored content is the trimmed inner content.
C5_ModeAsStated ==
  Spliced =>
    \A i \in 1..Len(raws) :
      LET seg == Segments(children)[i]
          double == raws[i].olen = 2 /\ raws[i].clen = 2
      IN /\ SegmentIsDisplay(seg) <=> (double \/ (~double /\ SpacesBothSides(raws[i])))
         /\ SegmentIsInline(seg) <=> ~SegmentIsDisplay(seg)
         /\ Unescaped(seg.value) = Trimmed(raws[i].content)

\* C5 (amended): a segment is display exactly when its matched text begins
\* with two dollars (whatever closes it), or its inner content has whitespace
\* on both sides (two distinct whitespace characters); otherwise it is inline.
\* Its stored content is the trimmed inner content with braces entity-escaped.
C5_Mode ==
  Spliced =>
    \A i \in 1..Len(raws) :
      LET seg == Segments(children)[i]
      IN /\ SegmentIsDisplay(seg) <=> (StartsWithTwoDollars(raws[i]) \/ SpacesBothSides(raws[i]))
         /\ SegmentIsInline(seg) <=> ~SegmentIsDisplay(seg)
         /\ Unescaped(seg.value) = Trimmed(raws[i].content)
         /\ ~Includes(seg.value, "{") /\ ~Includes(seg.value, "}")

\* C5 witness: one pass produced a display segment from single dollars with
\* spaces, and trimming removed them
C5_Witness ==
  /\ Spliced
  /\ \E i \in 1..Len(raws) :
       /\ raws[i].olen = 1 /\ raws[i].clen = 1
       /\ SpacesBothSides(raws[i])
       /\ SegmentIsDisplay(Segments(children)[i])
       /\ Len(Segments(children)[i].value) > 0
       /\ Len(Segments(children)[i].value) < Len(raws[i].content)

\* the flattened text rebuilt from a spliced sequence: a text node gives its
\* value, a math segment the raw text of its match, any other node one
\* placeholder
RECURSIVE Rebuilt(_, _)
Rebuilt(ch, rs) ==
  IF ch = <<>> THEN <<>>
  ELSE IF Head(ch).type = "text" THEN Head(ch).value \o Rebuilt(Tail(ch), rs)
  ELSE IF Head(ch).type = "inlineCode" /\ rs # <<>>
       THEN Head(rs).full \o Rebuilt(Tail(ch), Tail(rs))
  ELSE <<Placeholder>> \o Rebuilt(Tail(ch), rs)

\* C6: the flattened text rebuilt from the spliced children equals the
\* original flattened view (nothing outside the matches is lost, duplicated
\* or reordered).
C6_RoundTrip ==
  phase = "spliced" =>
    /\ Len(Segments(children)) = Len(raws)
    /\ Rebuilt(children, raws) = FullText(source)

\* C6 witness: one text node cut by two matches, with text kept between them
C6_Witness ==
  /\ phase = "spliced"
  /\ Len(source) = 1
  /\ Len(raws) = 2
  /\ Len(children) = 3 /\ children[2].type = "text"

\* a match that swallowed a non-text child and so straddles three original
\* children, with text kept on both sides
StraddlingMatch ==
  /\ phase = "spliced"
  /\ Len(source) = 3
  /\ Len(raws) = 1 /\ Includes(raws[1].content, Placeholder)
  /\ Len(children) = 3
  /\ children[1].type = "text" /\ children[3].type = "text"

\* C7: a second run of the pass on its own output changes nothing and finds
\* no further match; a run on a paragraph without any dollar changes nothing.
C7_Idempotent ==
  [][ /\ phase = "spliced" => (children' = children /\ raws' = <<>>)
      /\ ~Includes(FullText(children), "$") => (children' = children /\ raws' = <<>>)
    ]_vars

\* C7 witness: the second run went through the splice path (an unmatched
\* dollar was left over) on a sequence holding a math segment
C7_Witness ==
  /\ phase = "respliced"
  /\ Includes(FullText(children), "$")
  /\ Len(Segments(children)) > 0

\* ------------------------------------------ properties of the render stage
\* s holds sub as a contiguous run
Contains(s, sub) ==
  \E k \in 0..(Len(s) - Len(sub)) : SubSeq(s, k + 1, k + Len(sub)) = sub

Failed == {n \in Dispatched : jobs[n].outcome = "error"}

Succeeded == {n \in Dispatched : jobs[n].outcome = "svg"}

\* the elements the stage has to render, read off the tree it was given
MathNodes ==
  {n \in 1..Len(given) :
     \/ \E c \in {"math-inline", "math-display"} :
          \E k \in 1..Len(given[n].className) : given[n].className[k] = c
     \/ /\ given[n].tagName = "code"
        /\ \E k \in 1..Len(given[n].className) : given[n].className[k] = "language-typst"}

InPre(n) == given[n].parent # 0 /\ given[given[n].parent].tagName = "pre"

\* C1: the stage completes only after every dispatched job has settled,
\* failed or not, and a job was dispatched for every matching element.
C1_Barrier ==
  tpc = "done" =>
    /\ \A n \in MathNodes : jobs[n].pc = "settled"
    /\ \A n \in 1..Len(jobs) : jobs[n].pc \in {"none", "settled"}

\* C1 witness: the stage completed a run of three jobs of which one failed
C1_Witness ==
  /\ tpc = "done"
  /\ Cardinality(Dispatched) = 3
  /\ Cardinality(Failed) = 1

\* the node shows the error marker: one text child with the failure message
ShowsError(n) ==
  /\ hast[n].kids.kind = "error"
  /\ Contains(hast[n].kids.value, jobs[n].message)
  /\ jobs[n].message # <<>>
  /\ hast[n].kids.value[1] = "[Typst Error: "

OneFailed == tpc = "done" /\ Cardinality(Failed) = 1 /\ Cardinality(Dispatched) >= 2

\* C2 (as stated): when exactly one job fails, its node shows the error
\* marker and every other job's node holds a rendered image as its child.
C2_AsStated ==
  OneFailed =>
    \A n \in Dispatched :
      IF n \in Failed THEN ShowsError(n) ELSE hast[n].kids.kind = "svg"

\* C2 (amended): when exactly one job fails, its node shows the error marker
\* and is otherwise as given; every other job's node holds a rendered image
\* as its child, except that a node whose parent is a <pre> is left as given
\* and the <pre> holds the image instead; no other element is changed.
C2_Isolation ==
  OneFailed =>
    /\ \A n \in Failed :
         /\ ShowsError(n)
         /\ [hast[n] EXCEPT !.kids = given[n].kids] = given[n]
    /\ \A n \in Succeeded :
         IF InPre(n)
         THEN hast[n] = given[n] /\ hast[given[n].parent].kids.kind = "svg"
         ELSE hast[n].kids.kind = "svg"
    /\ \A n \in 1..Len(hast) :
         (n \notin Dispatched /\ ~\E m \in Succeeded : InPre(m) /\ given[m].parent = n)
           => hast[n] = given[n]

\* C2 witness: three jobs, the failing one inside a <pre> that was left alone,
\* the other two rendered
C2_Witness ==
  /\ OneFailed
  /\ Cardinality(Dispatched) = 3
  /\ \E n \in Failed : InPre(n) /\ hast[given[n].parent] = given[given[n].parent]
  /\ \E n \in Succeeded : hast[n].kids.kind = "svg"

\* C8: at most one job is inside the engine, it is the job that holds the
\* thread, no other job is between its compile call and its cache eviction,
\* and no suspended job resumes meanwhile (the walk still holds the thread).
C8_Serialized ==
  /\ Cardinality(compiler.inside) <= 1
  /\ \A j \in compiler.inside : cur = j
  /\ \A n \in 1..Len(jobs) :
       jobs[n].pc \in {"compile", "svg", "evict"} => n = cur
  /\ cur # 0 => tpc = "visit"

\* C8 witness: a job is inside the shared engine, about to evict the cache,
\* while two earlier jobs are dispatched and not yet settled
C8_Witness ==
  /\ cur # 0 /\ jobs[cur].pc = "evict" /\ cur \in compiler.inside
  /\ compiler.created
  /\ Cardinality({n \in Dispatched : jobs[n].pc = "awaiting"}) = 2

HasBox(t) == \E k \in 1..Len(t) : t[k] = BoxDirective

\* content without the engine's own delimiters: the jobs C9 is about
Wrapped ==
  {n \in Dispatched :
     LET c == Trimmed(jobs[n].code)
     IN ~(c # <<>> /\ c[1] = "$" /\ c[Len(c)] = "$")}

\* C9 (as stated): the box directive is in the source document exactly when
\* the job is display mode; the page directive comes first in both modes.
C9_AsStated ==
  \A n \in Wrapped :
    /\ HasBox(jobs[n].template) <=> jobs[n].display
    /\ jobs[n].template[1] = PageDirective

\* C9 (amended): the box directive is in the source document exactly when
\* the job is inline (not display) mode; the page directive comes first in
\* both modes.
C9_Box ==
  \A n \in Wrapped :
    /\ HasBox(jobs[n].template) <=> ~jobs[n].display
    /\ jobs[n].template[1] = PageDirective
    /\ Contains(jobs[n].template, <<"$", " ">> \o Trimmed(jobs[n].code) \o <<" ", "$">>)

\* C9 witness: a display job compiled without the box and an inline job
\* compiled with it
C9_Witness ==
  /\ \E n \in Wrapped : jobs[n].display /\ ~HasBox(jobs[n].template) /\ n \in Succeeded
  /\ \E n \in Wrapped : ~jobs[n].display /\ HasBox(jobs[n].template) /\ n \in Succeeded

\* -------------------------------------------- properties of both plugins
\* the elements that came from remark-typst's math segments
SegmentElements ==
  {n \in 1..Len(given) :
     given[n].className \in {<<"typst-math-inline">>, <<"typst-math-display">>}}

\* C3: after the pipeline every math segment created by the extraction holds
\* a rendered image or an error marker, never its raw text.
C3_SegmentsRendered ==
  tpc = "done" =>
    /\ Len(Segments(children)) = Cardinality(SegmentElements)
    /\ \A n \in SegmentElements : hast[n].kids.kind \in {"svg", "error"}

HasBrace(c) == Includes(c, "{") \/ Includes(c, "}")

\* C4: content with braces is stored entity-escaped and reaches the engine's
\* compile call with its braces back.
C4_BraceRoundTrip ==
  tpc = "done" =>
    \A i \in 1..Len(raws) :
      HasBrace(raws[i].content) =>
        /\ ~HasBrace(Segments(children)[i].value)
        /\ \E n \in Dispatched :
             Contains(jobs[n].template, Trimmed(raws[i].content))

\* C10: a run whose content is empty after trimming is skipped: it gives no
\* segment, no job, and no compile call with empty content.
C10_MalformedSkipped ==
  phase \in {"spliced", "hast"} =>
    /\ \A i \in 1..Len(Segments(children)) : Segments(children)[i].value # <<>>
    /\ \A n \in SegmentElements \cap Dispatched : Trimmed(jobs[n].code) # <<>>

====
